---- MODULE Spec2Model ----
(***************************************************************************)
(* BitstreamReader of src/bits.rs: a bit cursor over a byte source with a  *)
(* 32-bit accumulator (buf), a count of valid bits (remaining) and an      *)
(* end-of-source flag (eof).                                               *)
(*                                                                         *)
(* A u32 is kept as its two 16-bit halves [h, l], so that every shift, or  *)
(* and wrap of the code keeps its 32-bit width.  The build is either with  *)
(* overflow checks (a debug build: an overflowing subtraction, addition or *)
(* shift panics) or without (a release build: the arithmetic wraps and a   *)
(* shift amount is taken modulo 32).                                       *)
(***************************************************************************)
EXTENDS Integers, Sequences, FiniteSets, TLC

VARIABLES
    src,     \* the bytes of the byte source the reader borrows
    fault,   \* 0, or the number of the source byte whose read fails (I/O error)
    checks,  \* TRUE: built with overflow checks; FALSE: without
    bs,      \* the BitstreamReader: [buf, remaining, eof, rpos]
    pre,     \* the BitstreamReader as it was when the last call was made
    last     \* the last call and its outcome, "idle" once the caller took it

vars == <<src, fault, checks, bs, pre, last>>

\* ------------------------------------------------------------------ bounds

\* Longest of the byte sources cut from DATA_BUF.
MaxLen == 6

\* ns(n) is called with n in 1..MaxNs (and the two sizes of LargeNs).
MaxNs == 8

\* ------------------------------------------------------- 32-bit arithmetic

Pow2(k) == 2 ^ k

U32(h, l) == [h |-> h, l |-> l]

Zero32 == U32(0, 0)

Max32 == U32(65535, 65535)

\* The u32 of a natural number below 2^31.
FromNat(v) == U32(v \div 65536, v % 65536)

\* The number held by a u32 below 2^31.
ToNat(x) == x.h * 65536 + x.l

\* value as i32: the two's complement reading of a u32.
AsI32(x) ==
    IF x.h < 32768 THEN ToNat(x)
    ELSE ((x.h - 32768) * 65536 + x.l) - Pow2(30) - Pow2(30)

\* x >> k, 0 <= k.
Shr(x, k) ==
    IF k >= 32 THEN Zero32
    ELSE IF k >= 16 THEN U32(0, x.h \div Pow2(k - 16))
    ELSE U32(x.h \div Pow2(k),
             (x.l \div Pow2(k)) + (x.h % Pow2(k)) * Pow2(16 - k))

\* x << k modulo 2^32, 0 <= k.
Shl(x, k) ==
    IF k >= 32 THEN Zero32
    ELSE IF k >= 16 THEN U32((x.l * Pow2(k - 16)) % 65536, 0)
    ELSE U32(((x.h * Pow2(k)) % 65536) + (x.l \div Pow2(16 - k)),
             (x.l * Pow2(k)) % 65536)

RECURSIVE OrNat(_, _)
\* Bitwise or of two natural numbers.
OrNat(a, b) ==
    IF a = 0 THEN b
    ELSE IF b = 0 THEN a
    ELSE (IF a % 2 = 1 \/ b % 2 = 1 THEN 1 ELSE 0) + 2 * OrNat(a \div 2, b \div 2)

Or32(x, y) == U32(OrNat(x.h, y.h), OrNat(x.l, y.l))

\* Bit k of x, 0 <= k <= 31.
BitOf(x, k) ==
    IF k < 16 THEN (x.l \div Pow2(k)) % 2 ELSE (x.h \div Pow2(k - 16)) % 2

\* 1 << k as a u32, 0 <= k <= 31.
Bit32(k) == IF k < 16 THEN U32(0, Pow2(k)) ELSE U32(Pow2(k - 16), 0)

\* x < y as unsigned numbers.
Less32(x, y) == x.h < y.h \/ (x.h = y.h /\ x.l < y.l)

\* x + y modulo 2^32, with the carry out of bit 31.
Add32(x, y) ==
    LET lo == x.l + y.l
        hi == x.h + y.h + (lo \div 65536)
    IN  [val |-> U32(hi % 65536, lo % 65536), over |-> hi >= 65536]

\* x - y modulo 2^32, with the borrow out of bit 31.
Sub32(x, y) ==
    LET lo == x.l - y.l
        hi == x.h - y.h - (IF lo < 0 THEN 1 ELSE 0)
    IN  [val |-> U32((hi + 65536) % 65536, (lo + 65536) % 65536), over |-> hi < 0]

RECURSIVE ilog2(_)
\* u8::ilog2: floor of the base 2 logarithm, n >= 1.
ilog2(n) == IF n < 2 THEN 0 ELSE 1 + ilog2(n \div 2)

\* ------------------------------------------------------------- the reader

\* An outcome of an operation on the cursor s: the cursor it leaves, how it
\* ended ("ok", "eof" = Err(UnexpectedEof), "io" = any other Err, "panic"),
\* for "ok" the value returned (val: u32, ival: i32) and for "panic" the
\* expression that panicked.
Out(s, out, val) == [bs |-> s, out |-> out, val |-> val, ival |-> 0, trap |-> ""]

Panic(s, trap) == [bs |-> s, out |-> "panic", val |-> Zero32, ival |-> 0, trap |-> trap]

\* read_u8: read_exact of one byte from the source.  The byte number
\* `fault` of the source, when not 0, fails with an error that is not
\* UnexpectedEof.
read_u8(s) ==
    IF fault # 0 /\ s.rpos + 1 = fault THEN Out(s, "io", Zero32)
    ELSE IF s.rpos < Len(src)
    THEN Out([s EXCEPT !.rpos = s.rpos + 1], "ok", FromNat(src[s.rpos + 1]))
    ELSE Out(s, "eof", Zero32)

RECURSIVE refill_loop(_)
\* The while loop of refill.
refill_loop(s) ==
    IF s.remaining < 32
    THEN LET r == read_u8(s)
         IN  CASE r.out = "ok" ->
                    refill_loop([r.bs EXCEPT !.buf = Or32(Shl(s.buf, 8), r.val),
                                             !.remaining = s.remaining + 8])
               [] r.out = "eof" ->
                    Out([s EXCEPT !.buf = IF s.remaining > 0
                                          THEN Shl(s.buf, 32 - s.remaining)
                                          ELSE s.buf,
                                  !.eof = TRUE], "ok", Zero32)
               [] OTHER -> Out(s, "io", Zero32)
    ELSE Out(s, "ok", Zero32)

refill(s) == refill_loop([s EXCEPT !.remaining = 0])

\* The tail of get_bits: remaining -= taken; buf = if taken == 32 {0} else
\* {buf << taken}; Ok(res).  remaining is a u8.
get_bits_take(s, res, taken) ==
    IF s.remaining < taken /\ checks
    THEN Panic(s, "remaining -= taken")
    ELSE Out([s EXCEPT !.remaining = (s.remaining - taken + 256) % 256,
                       !.buf = IF taken = 32 THEN Zero32 ELSE Shl(s.buf, taken)],
             "ok", res)

\* get_bits_refilled without the bits the accumulator held before the refill.
get_bits_drops_initial(r, initial, remainder) ==
    IF r.out # "ok" THEN Out(r.bs, r.out, Zero32)
    ELSE get_bits_take(r.bs, Shr(r.bs.buf, 32 - remainder), remainder)

\* get_bits once self.refill()? has ended as r: the error goes to the caller,
\* else (initial | (self.buf >> (32 - remainder)), remainder) is taken.
get_bits_refilled(r, initial, remainder) ==
    IF r.out # "ok" THEN Out(r.bs, r.out, Zero32)
    ELSE get_bits_take(r.bs,
                       Or32(initial, Shr(r.bs.buf, 32 - remainder)),
                       remainder)

\* get_bits(n).  buf >> (32 - n) has a u8 shift amount: 32 (n = 0) panics
\* with overflow checks and is taken modulo 32 without.
get_bits(s, n) ==
    IF n > 32 THEN Panic(s, "assert n <= 32")
    ELSE IF s.remaining >= n
    THEN IF n = 0 /\ checks THEN Panic(s, "buf >> (32 - n)")
         ELSE get_bits_take(s, Shr(s.buf, (32 - n) % 32), n)
    ELSE IF s.eof THEN Out(s, "eof", Zero32)
    ELSE LET initial_bits == s.remaining
             remainder == n - initial_bits
         IN  get_bits_refilled(refill(s),
                               Shr(s.buf, 32 - initial_bits - remainder),
                               remainder)

f(s, n) == get_bits(s, n)

\* Ok(r? == 1); val is 1 for true and 0 for false.
f1_bool(r) ==
    IF r.out # "ok" THEN r
    ELSE Out(r.bs, "ok", IF r.val = FromNat(1) THEN FromNat(1) ELSE Zero32)

f1(s) == f1_bool(get_bits(s, 1))

\* The loop state of uvlc: the cursor, the u8 counter leading_zeros (n) and
\* "loop" while the loop goes on, "ok" once f1 returned true, else how f1 or
\* the increment failed.
UvlcLoop(s, n, out, trap) == [bs |-> s, n |-> n, out |-> out, trap |-> trap]

\* One pass of the while loop of uvlc, r being what self.f1() returned.
uvlc_counted(z, r) ==
    IF r.out # "ok" THEN UvlcLoop(r.bs, z.n, r.out, r.trap)
    ELSE IF r.val = FromNat(1) THEN UvlcLoop(r.bs, z.n, "ok", "")
    ELSE IF z.n = 255
    THEN IF checks THEN UvlcLoop(r.bs, z.n, "panic", "leading_zeros += 1")
                   ELSE UvlcLoop(r.bs, 0, "loop", "")
    ELSE UvlcLoop(r.bs, z.n + 1, "loop", "")

uvlc_pass(z) == IF z.out # "loop" THEN z ELSE uvlc_counted(z, f1(z.bs))

RECURSIVE uvlc_passes(_, _)
\* At most k passes of the while loop of uvlc.
uvlc_passes(z, k) ==
    IF k = 0 \/ z.out # "loop" THEN z ELSE uvlc_passes(uvlc_pass(z), k - 1)

RECURSIVE uvlc_zeros(_)
\* The while loop of uvlc, run sixteen passes at a time.
uvlc_zeros(z) == IF z.out # "loop" THEN z ELSE uvlc_zeros(uvlc_passes(z, 16))

\* x - 1 on u32.
uvlc_minus_one(s, dif) ==
    IF checks /\ dif.over THEN Panic(s, "... - 1") ELSE Out(s, "ok", dif.val)

\* x + (1 << leading_zeros) - 1 on u32, x being what f(leading_zeros) returned.
uvlc_sum(s, sum) ==
    IF checks /\ sum.over
    THEN Panic(s, "f(leading_zeros) + (1 << leading_zeros)")
    ELSE uvlc_minus_one(s, Sub32(sum.val, FromNat(1)))

\* Ok(r? + (1 << leading_zeros) - 1), r being what f(leading_zeros) returned.
uvlc_suffix(r, leading_zeros) ==
    IF r.out # "ok" THEN r
    ELSE uvlc_sum(r.bs, Add32(r.val, Bit32(leading_zeros)))

\* uvlc after its while loop has ended as z.
uvlc_value(z) ==
    IF z.out = "panic" THEN Panic(z.bs, z.trap)
    ELSE IF z.out # "ok" THEN Out(z.bs, z.out, Zero32)
    ELSE IF z.n >= 32 THEN Out(z.bs, "ok", Max32)
    ELSE uvlc_suffix(f(z.bs, z.n), z.n)

uvlc(s) == uvlc_value(uvlc_zeros(UvlcLoop(s, 0, "loop", "")))

\* le(n): get_bits(n * 4); n * 4 is a u8 and n is at most 4 here.
le(s, n) == get_bits(s, n * 4)

RECURSIVE leb128_loop(_, _, _)

\* One pass of the for loop of leb128, r being what self.f(8) returned and
\* next the value with the byte's low 7 bits or-ed in.
leb128_byte(r, i, next) ==
    IF r.out # "ok" THEN r
    ELSE IF checks /\ i * 7 >= 32
    THEN Panic(r.bs, "(byte & 0x7f) << (i * 7)")
    ELSE IF BitOf(r.val, 7) # 0 THEN Out(r.bs, "ok", next)
    ELSE leb128_loop(r.bs, i + 1, next)

\* value | ((byte & 0x7f) << (i * 7)); the shift amount wraps modulo 32.
leb128_or(value, byte, i) ==
    Or32(value, Shl(U32(0, byte.l % 128), (i * 7) % 32))

leb128_read(r, i, value) == leb128_byte(r, i, leb128_or(value, r.val, i))

\* The for loop of leb128 from iteration i on, with the value so far.
leb128_loop(s, i, value) ==
    IF i >= 8 THEN Out(s, "ok", value) ELSE leb128_read(f(s, 8), i, value)

leb128(s) == leb128_loop(s, 0, Zero32)

\* su_value with the sign mask subtracted once instead of twice.
su_one_subtraction(r, n) ==
    IF r.out # "ok" THEN r
    ELSE IF BitOf(r.val, n - 1) # 0
    THEN [r EXCEPT !.ival = AsI32(Sub32(r.val, Bit32(n - 1)).val)]
    ELSE [r EXCEPT !.ival = AsI32(r.val)]

\* su(n) once self.f(n) has returned r; sign_mask = 1 << (n - 1), and
\* overflowing_sub_unsigned wraps in every build.
su_value(r, n) ==
    IF r.out # "ok" THEN r
    ELSE IF BitOf(r.val, n - 1) # 0
    THEN [r EXCEPT !.ival =
             AsI32(Sub32(Sub32(r.val, Bit32(n - 1)).val, Bit32(n - 1)).val)]
    ELSE [r EXCEPT !.ival = AsI32(r.val)]

\* su(n), n >= 1.
su(s, n) == su_value(f(s, n), n)

\* ((v << 1) - m) + e, e being what self.f(1) returned.
ns_sum(e, sum) ==
    IF e.out # "ok" THEN e
    ELSE IF checks /\ sum.over THEN Panic(e.bs, "(v << 1) - m + f(1)")
    ELSE Out(e.bs, "ok", sum.val)

ns_extra(e, dif) == ns_sum(e, Add32(dif.val, e.val))

\* (v << 1) - m, then the extra bit.
ns_high(s, dif) ==
    IF checks /\ dif.over THEN Panic(s, "(v << 1) - m")
    ELSE ns_extra(f(s, 1), dif)

\* ns(n) once self.f(w - 1) has returned r.
ns_value(r, m) ==
    IF r.out # "ok" THEN r
    ELSE IF Less32(r.val, m) THEN Out(r.bs, "ok", r.val)
    ELSE ns_high(r.bs, Sub32(Shl(r.val, 1), m))

\* ns(n), n >= 1: w = n.ilog2() + 1, m = (1 << w) - n.
ns(s, n) == ns_value(f(s, ilog2(n)), FromNat(Pow2(ilog2(n) + 1) - n))

\* ------------------------------------------------------------ the sources

\* DATA_BUF of the tests: i one bits then i zero bits, for i = 1..16.
DATA_BUF ==
    << 179, 143, 15, 131, 240, 63, 128, 255, 0, 255, 128, 63, 240, 3, 255, 128,
       15, 255, 0, 15, 255, 128, 3, 255, 240, 0, 63, 255, 128, 0, 255, 255, 0, 0 >>

\* The byte sources of the other tests of src/bits.rs.
TestSources ==
    { <<0, 0, 0, 0, 128>>, <<0, 0, 0, 0, 64>>, <<0, 64, 64>>, <<0, 65, 192>>,
      <<0, 128, 128>>, <<0, 255, 128>>, <<5, 0>>, <<5, 96>>,
      <<31, 46>>, <<3, 252>>, <<0, 255, 255, 255, 255, 255, 255, 255>>,
      <<27, 112>> }

\* Sources of zero bits only, of a leading one bit, and of leb128 values.
EdgeSources ==
    { <<0, 0, 0, 0, 0>>, <<128>>, <<192>>, <<1>>, <<129, 1>> }

\* A source of every length up to MaxLen (the first bytes of DATA_BUF), and
\* the sources above.
Sources ==
    {SubSeq(DATA_BUF, 1, n) : n \in 0..MaxLen} \cup TestSources \cup EdgeSources

\* BitstreamReader::new: an empty accumulator, refilled once.
NewReader == refill([buf |-> Zero32, remaining |-> 0, eof |-> FALSE, rpos |-> 0])

Idle == [op |-> "idle", n |-> 0, out |-> "ok", val |-> Zero32, ival |-> 0, trap |-> ""]

Call(op, n, r) ==
    [op |-> op, n |-> n, out |-> r.out, val |-> r.val, ival |-> r.ival,
     trap |-> r.trap]

Init ==
    /\ src \in Sources
    /\ fault = 0
    /\ checks \in BOOLEAN
    /\ bs = NewReader.bs
    /\ pre = bs
    /\ last = Idle

\* A source whose read of byte number `fault` fails; new() has succeeded.
InitIO ==
    /\ src \in Sources
    /\ fault \in 0..Len(src)
    /\ checks \in BOOLEAN
    /\ NewReader.out = "ok"
    /\ bs = NewReader.bs
    /\ pre = bs
    /\ last = Idle

\* The caller has taken the outcome of the call before and may call again.
Ready == last.op = "idle"

\* The effect of a call that ended as r.
Do(op, n, r) ==
    /\ pre' = bs
    /\ bs' = r.bs
    /\ last' = Call(op, n, r)
    /\ UNCHANGED <<src, fault, checks>>

FWidths == 1..32

LeSizes == 1..4

LargeNs == {128, 255}

NsSizes == (1..MaxNs) \cup LargeNs

F(n) ==
    /\ Ready
    /\ Do("f", n, f(bs, n))

F1 ==
    /\ Ready
    /\ Do("f1", 1, f1(bs))

Uvlc ==
    /\ Ready
    /\ Do("uvlc", 0, uvlc(bs))

Le(n) ==
    /\ Ready
    /\ Do("le", n, le(bs, n))

Leb128 ==
    /\ Ready
    /\ Do("leb128", 0, leb128(bs))

Su(n) ==
    /\ Ready
    /\ Do("su", n, su(bs, n))

Ns(n) ==
    /\ Ready
    /\ Do("ns", n, ns(bs, n))

\* The caller takes the outcome (a value or an Err) and goes on; a panic
\* ends the session.
Return ==
    /\ last.op # "idle"
    /\ last.out # "panic"
    /\ last' = Idle
    /\ pre' = bs
    /\ UNCHANGED <<src, fault, checks, bs>>

Next ==
    \/ \E n \in FWidths : F(n)
    \/ F1
    \/ Uvlc
    \/ \E n \in LeSizes : Le(n)
    \/ Leb128
    \/ \E n \in FWidths : Su(n)
    \/ \E n \in NsSizes : Ns(n)
    \/ Return

Spec == Init /\ [][Next]_vars

SpecIO == InitIO /\ [][Next]_vars

\* ------------------------------------------------- what the claims speak of

\* The cursor position of a reader: the count of source bits it has handed out.
Position(s) == 8 * s.rpos - s.remaining

\* The count of source bits a reader has not handed out yet.
Unread(s) == 8 * Len(src) - Position(s)

SrcBitLen == 8 * Len(src)

\* Bit p of the source, the most significant bit of the first byte being bit 0.
SrcBit(p) == (src[(p \div 8) + 1] \div Pow2(7 - (p % 8))) % 2

RECURSIVE SrcNat(_, _)
\* The n source bits from bit p on as a number, first bit most significant.
SrcNat(p, n) == IF n = 0 THEN 0 ELSE 2 * SrcNat(p, n - 1) + SrcBit(p + n - 1)

\* The n <= 32 source bits from bit p on as a u32.
SrcU32(p, n) ==
    IF n <= 16 THEN U32(0, SrcNat(p, n))
    ELSE U32(SrcNat(p, n - 16), SrcNat(p + n - 16, 16))

\* The n source bits from bit p on exist.
InSource(p, n) == p >= 0 /\ p + n <= SrcBitLen

RECURSIVE ZeroRun(_)
\* The count of zero bits from bit p on up to the next one bit of the source,
\* or more than the source holds when there is no one bit.
ZeroRun(p) ==
    IF p >= SrcBitLen THEN SrcBitLen + 1
    ELSE IF SrcBit(p) = 1 THEN 0 ELSE 1 + ZeroRun(p + 1)

\* The signed reading of the n-bit pattern v: v, or v - 2^n when bit n-1 is set.
Signed(v, n) ==
    IF BitOf(v, n - 1) = 0 THEN ToNat(v)
    ELSE IF n = 32 THEN ((v.h - 32768) * 65536 + v.l) - Pow2(30) - Pow2(30)
    ELSE IF n = 1 THEN ToNat(v) - 2
    ELSE (ToNat(v) - Pow2(n - 1)) - Pow2(n - 1)

\* lo <= x <= hi for the signed range of n bits, [-2^(n-1), 2^(n-1) - 1].
InSignedRange(x, n) ==
    IF n = 32 THEN TRUE
    ELSE IF n = 1 THEN x \in {-1, 0}
    ELSE -Pow2(n - 1) <= x /\ x <= Pow2(n - 1) - 1

\* ----------------------------------------------------------------- claims

\* C1: f(n), 1 <= n <= 32, called when fewer than n unread bits remain,
\* returns the end-of-stream error, does not advance the cursor, and fails
\* again when repeated.
C1_ShortReadFails ==
    (last.op = "f" /\ Unread(pre) < last.n)
        => /\ last.out = "eof"
           /\ Position(bs) = Position(pre)
           /\ f(bs, last.n).out = "eof"

\* C2: with a, b >= 1, a + b <= 32 and at least a + b unread bits, f(a) then
\* f(b) return x and y with x * 2^b + y equal to what f(a + b) returns from
\* the same position, and both leave the cursor at the same position.
C2_SplitRead ==
    (last.op = "f" /\ last.out = "ok")
        => \A b \in 1..(32 - last.n) :
              Unread(pre) >= last.n + b
                  => LET y == f(bs, b)
                         z == f(pre, last.n + b)
                     IN  /\ y.out = "ok"
                         /\ z.out = "ok"
                         /\ z.val = Add32(Shl(last.val, b), y.val).val
                         /\ Position(y.bs) = Position(z.bs)

\* C2 happens: an f(a) has straddled a refill of the accumulator from a
\* position with unread bits left for an f(b) after it.
C2_Witness ==
    /\ last.op = "f"
    /\ last.out = "ok"
    /\ pre.remaining > 0
    /\ pre.remaining < last.n
    /\ last.n < 32
    /\ Unread(pre) > last.n
    /\ last.val # Zero32
    /\ f(bs, 1).out = "ok"

\* C3: a read that returns an error leaves the cursor where it was.
C3_FailedReadKeepsCursor ==
    last.out \in {"eof", "io"} => Position(bs) = Position(pre)

\* C4: uvlc() on k < 32 zero bits, a one bit and the k bits of s returns
\* s + 2^k - 1 and consumes 2k + 1 bits (0 for k = 0).
C4_UvlcDecodes ==
    (/\ last.op = "uvlc"
     /\ InSource(Position(pre), 0)
     /\ ZeroRun(Position(pre)) < 32
     /\ InSource(Position(pre), 2 * ZeroRun(Position(pre)) + 1))
        => LET p == Position(pre)
               k == ZeroRun(p)
               s == SrcU32(p + k + 1, k)
           IN  /\ last.out = "ok"
               /\ last.val = Sub32(Add32(s, Bit32(k)).val, FromNat(1)).val
               /\ Position(bs) = p + 2 * k + 1

\* C5: uvlc() on 32 or more zero bits returns 2^32 - 1, with or without a
\* one bit after them; it neither fails nor overflows.
C5_UvlcSaturates ==
    (/\ last.op = "uvlc"
     /\ InSource(Position(pre), 32)
     /\ SrcU32(Position(pre), 32) = Zero32)
        => (last.out = "ok" /\ last.val = Max32)

\* The count of bytes of a leb128 value at bit p: up to and with the first
\* byte whose top bit is 0, looking at most `left` bytes ahead; more than
\* `left` when there is none.
RECURSIVE Leb128Len(_, _)
Leb128Len(p, left) ==
    IF left = 0 \/ ~InSource(p, 8) THEN left + 1
    ELSE IF SrcBit(p) = 0 THEN 1 ELSE 1 + Leb128Len(p + 8, left - 1)

RECURSIVE Leb128Value(_, _)
\* The sum of the low 7 bits of the i-th byte times 2^(7i) over n bytes.
Leb128Value(p, n) ==
    IF n = 0 THEN 0 ELSE SrcNat(p + 1, 7) + 128 * Leb128Value(p + 8, n - 1)

\* C6: leb128() adds the low 7 bits of byte i at bit offset 7i and stops
\* after the first byte whose top bit is 0: 0x01 gives 1 from one byte,
\* 0x81 0x01 gives 129 from two bytes.  (Values of at most 4 bytes here.)
C6_Leb128Decodes ==
    (/\ last.op = "leb128"
     /\ InSource(Position(pre), 0)
     /\ Leb128Len(Position(pre), 4) <= 4)
        => LET p == Position(pre)
               n == Leb128Len(p, 4)
           IN  /\ last.out = "ok"
               /\ last.val = FromNat(Leb128Value(p, n))
               /\ Position(bs) = p + 8 * n

\* C7: su(n) returns the n-bit pattern v it read when bit n-1 of v is clear
\* and v - 2^n when it is set, within [-2^(n-1), 2^(n-1) - 1], and reads as
\* f(n) does; at n = 32 nothing traps and all ones is -1; at n = 4 the
\* patterns 0001, 1111, 0010, 1110 are 1, -1, 2, -2.
C7_SuSigned ==
    last.op = "su"
        => /\ last.out = f(pre, last.n).out
           /\ bs = f(pre, last.n).bs
           /\ last.out = "ok"
                => /\ last.val = f(pre, last.n).val
                   /\ last.ival = Signed(last.val, last.n)
                   /\ InSignedRange(last.ival, last.n)
                   /\ (last.n = 32 /\ last.val = Max32) => last.ival = -1
                   /\ (last.n = 4 /\ last.val = FromNat(1)) => last.ival = 1
                   /\ (last.n = 4 /\ last.val = FromNat(15)) => last.ival = -1
                   /\ (last.n = 4 /\ last.val = FromNat(2)) => last.ival = 2
                   /\ (last.n = 4 /\ last.val = FromNat(14)) => last.ival = -2

\* C7 happens: su(32) has read the all-ones pattern from the source.
C7_Witness ==
    /\ last.op = "su"
    /\ last.n = 32
    /\ last.out = "ok"
    /\ last.val = Max32
    /\ InSource(Position(pre), 32)
    /\ SrcU32(Position(pre), 32) = Max32

\* The count of bits ns(n) reads at bit p: w - 1, and one more when the
\* w - 1 bits are not below m.
NsBits(p, n) ==
    LET w == ilog2(n) + 1
    IN  IF InSource(p, w - 1) /\ SrcNat(p, w - 1) >= Pow2(w) - n THEN w ELSE w - 1

\* C8: ns(n) reads w - 1 bits as v, w = floor(log2 n) + 1, m = 2^w - n,
\* returns v if v < m and else 2v - m + e for one more bit e; the result is
\* in 0..n-1, and ns(1) is 0 from no bits.
C8_NsDecodes ==
    (/\ last.op = "ns"
     /\ InSource(Position(pre), NsBits(Position(pre), last.n)))
        => LET p == Position(pre)
               n == last.n
               w == ilog2(n) + 1
               m == Pow2(w) - n
               v == SrcNat(p, w - 1)
               r == IF v < m THEN v ELSE 2 * v - m + SrcBit(p + w - 1)
           IN  /\ last.out = "ok"
               /\ last.val = FromNat(r)
               /\ r \in 0..(n - 1)
               /\ Position(bs) = p + NsBits(p, n)

\* C9: le(n), n in 1..4, with n bytes unread consumes 8n bits and returns
\* the sum of byte_i * 256^i, the first byte read being the least significant.
C9_LeLittleEndian ==
    (/\ last.op = "le"
     /\ InSource(Position(pre), 8 * last.n))
        => LET p == Position(pre)
               byte(i) == IF i < last.n THEN SrcNat(p + 8 * i, 8) ELSE 0
           IN  /\ last.out = "ok"
               /\ last.val = U32(byte(2) + 256 * byte(3), byte(0) + 256 * byte(1))
               /\ Position(bs) = p + 8 * last.n

\* C10: remaining stays within 0..32, and remaining -= taken never goes
\* below zero.
C10_RemainingInRange ==
    /\ bs.remaining \in 0..32
    /\ last.trap # "remaining -= taken"

====
